---- MODULE Spec2Model ----
(***************************************************************************)
(* The workgroup creation pass of pocl (Workgroup::runOnModule with its    *)
(* helpers createLauncher, createWorkgroup and noaliasArguments), the      *)
(* functions it generates, and the two function passes it drives           *)
(* (BarrierTailReplication, WorkitemReplication).                          *)
(***************************************************************************)
EXTENDS Integers, Sequences, FiniteSets, TLC

VARIABLES
  M,            \* the llvm::Module the pass runs on
  Kernel,       \* cl::opt<string> Kernel: the kernel-name filter
  LocalSize,    \* cl::list<int> LocalSize: the configured local size
  OldLocalSize, \* int OldLocalSize[3] of the loop body
  pc,           \* position of control in runOnModule
  i,            \* the kernel loop's index
  out,          \* raw_fd_ostream out: the header's lines
  trace,        \* the stages run so far, <<stage, kernel name>>
  L,            \* Function *L of the loop body: the launcher's name
  ext,          \* the configured local size when the run began
  src,          \* the module as it was when the run began
  stack,        \* the frames of a dispatched workgroup function
  mem,          \* the memory a dispatch runs on
  dispatch,     \* what the host dispatched: kernel, arguments, context
  calls,        \* the calls made during the dispatch, <<callee, arguments>>
  reads,        \* the indices of the argument array loaded from
  status,       \* of the dispatch: idle, running, returned, trapped
  wg,           \* a work-group running a transformed kernel: the next
                \* instruction, the private registers, the shared buffer
  th,           \* a process that uses pocl_threads.h: a shared counter, a
                \* lock, and the last macro a thread ran
  bm            \* a run of the matrix benchmark's main: its arguments, the
                \* device's limits, what it printed and how it ended

passVars ==
  <<M, Kernel, LocalSize, OldLocalSize, pc, i, out, trace, L, ext, src>>
abiVars == <<stack, mem, dispatch, calls, reads, status>>
vars == <<passVars, abiVars, wg, th, bm>>

(***************************************************************************)
(* Bounds of the model.                                                    *)
(***************************************************************************)
MaxKernels == 2

(***************************************************************************)
(* LLVM types, as tagged tuples.                                           *)
(***************************************************************************)
IntTy(bits) == <<"int", bits>>
FloatTy == <<"float", 32>>
ArrayTy(elem, n) == <<"array", elem, n>>
StructTy(fields) == <<"struct", fields>>
PtrTy(to) == <<"ptr", to>>
VoidTy == <<"void", 0>>

\* a context type that declares work_dim after the three arrays
PoclContextTypeWorkDimLast ==
  StructTy(<< ArrayTy(IntTy(32), 3),
              ArrayTy(IntTy(32), 3),
              ArrayTy(IntTy(32), 3),
              IntTy(32) >>)

\* TypeBuilder<PoclContext, xcompile>::get
PoclContextType ==
  StructTy(<< IntTy(32),
              ArrayTy(IntTy(32), 3),
              ArrayTy(IntTy(32), 3),
              ArrayTy(IntTy(32), 3) >>)

\* enum Fields of TypeBuilder<PoclContext, xcompile>
WORK_DIM == 0
NUM_GROUPS == 1
GROUP_ID == 2
GLOBAL_OFFSET == 3

\* TypeBuilder<void(types::i<8>*[], PoclContext*), true>::get : the
\* parameter types of every workgroup function
WorkgroupParams == << PtrTy(PtrTy(IntTy(8))), PtrTy(PoclContextType) >>

(***************************************************************************)
(* Named metadata nodes: M.getNamedMetadata returns NULL or a node with    *)
(* operands.                                                               *)
(***************************************************************************)
NullMD == [null |-> TRUE, ops |-> <<>>]
NamedMD(ops) == [null |-> FALSE, ops |-> ops]

Range(s) == {s[n] : n \in DOMAIN s}

(***************************************************************************)
(* Functions of the module.                                                *)
(***************************************************************************)
\* a function as the kernel compiler's front end leaves it; of a kernel
\* whose code is looked at, cfg holds the blocks, block 1 the entry; body
\* holds the instructions of a function the pass generates
SourceFunction(params, isDecl) ==
  [ params  |-> params,
    ret     |-> VoidTy,
    decl    |-> isDecl,
    linkage |-> "External",
    attrs   |-> {},
    noalias |-> {},
    body    |-> <<>>,
    cfg     |-> <<>>,
    wicode  |-> <<>>,
    barrierTail |-> FALSE,
    replicas |-> <<>> ]

(***************************************************************************)
(* Instructions an IRBuilder emits.  A value is <<"arg", k>>, the k-th     *)
(* argument of the function (from 0), or <<"ins", k>>, the result of the   *)
(* k-th instruction of the body (from 1).                                  *)
(***************************************************************************)
NoValue == <<"none", 0>>
Inst(op, x, n, ty, callee, args) ==
  [op |-> op, x |-> x, n |-> n, ty |-> ty, callee |-> callee, args |-> args]
GEP(base, idx) == Inst("gep", base, idx, VoidTy, "", <<>>)
StructGEP(base, field) == Inst("structgep", base, field, VoidTy, "", <<>>)
Load(ptr) == Inst("load", ptr, 0, VoidTy, "", <<>>)
Store(val, global) == Inst("store", val, 0, VoidTy, global, <<>>)
BitCast(val, ty) == Inst("bitcast", val, 0, ty, "", <<>>)
Call(callee, args) == Inst("call", NoValue, 0, VoidTy, callee, args)
RetVoid == Inst("ret", NoValue, 0, VoidTy, "", <<>>)

(***************************************************************************)
(* The module's symbol table.                                              *)
(***************************************************************************)
\* Function::Create(ft, linkage, name, &M): a name already in the module's
\* symbol table is made unique by a numeric suffix
RECURSIVE UniqueSuffix(_, _, _)
UniqueSuffix(funcs, name, n) ==
  IF (name \o ToString(n)) \notin DOMAIN funcs
  THEN name \o ToString(n)
  ELSE UniqueSuffix(funcs, name, n + 1)

UniqueName(funcs, name) ==
  IF name \notin DOMAIN funcs THEN name ELSE UniqueSuffix(funcs, name, 1)

\* M.getGlobalVariable(name) != NULL
HasGlobal(mod, name) == name \in mod.globals

(***************************************************************************)
(* createLauncher(M, F)                                                    *)
(***************************************************************************)
\* the name Function::Create gives the launcher of F
LauncherName(mod, F) == UniqueName(mod.funcs, "_" \o F)

\* v: the types of F's arguments, then the pointer to the context
LauncherParams(mod, F) ==
  Append(mod.funcs[F].params, PtrTy(PoclContextType))

\* arguments: the launcher's first F->getArgumentList().size() arguments
LauncherArguments(mod, F) ==
  [k \in 1..Len(mod.funcs[F].params) |-> <<"arg", k - 1>>]

\* the copy of one context field into a global: StructGEP, load, store;
\* ai is the launcher's argument after F's, base the instructions before
CopyField(ai, field, global, base) ==
  << StructGEP(ai, field),
     Load(<<"ins", base + 1>>),
     Store(<<"ins", base + 2>>, global) >>

\* a launcher that calls F before it copies the context fields
LauncherBodyCallFirst(mod, F) ==
  LET ai == <<"arg", Len(mod.funcs[F].params)>>
      gid == IF HasGlobal(mod, "_group_id")
             THEN CopyField(ai, GROUP_ID, "_group_id", 1)
             ELSE <<>>
      ngr == IF HasGlobal(mod, "_num_groups")
             THEN CopyField(ai, NUM_GROUPS, "_num_groups", 1 + Len(gid))
             ELSE <<>>
  IN  << Call(F, LauncherArguments(mod, F)) >> \o gid \o ngr \o << RetVoid >>

LauncherBody(mod, F) ==
  LET ai == <<"arg", Len(mod.funcs[F].params)>>
      gid == IF HasGlobal(mod, "_group_id")
             THEN CopyField(ai, GROUP_ID, "_group_id", 0)
             ELSE <<>>
      ngr == IF HasGlobal(mod, "_num_groups")
             THEN CopyField(ai, NUM_GROUPS, "_num_groups", Len(gid))
             ELSE <<>>
  IN  gid \o ngr \o << Call(F, LauncherArguments(mod, F)), RetVoid >>

createLauncher(mod, F) ==
  LET fn == [SourceFunction(LauncherParams(mod, F), FALSE)
               EXCEPT !.body = LauncherBody(mod, F)]
  IN  [mod EXCEPT !.funcs = (LauncherName(mod, F) :> fn) @@ mod.funcs]

\* L->addFnAttr(Attribute::NoInline)
addFnAttr(mod, F, attr) ==
  [mod EXCEPT !.funcs[F].attrs = @ \cup {attr}]

\* noaliasArguments without the step over the return value's index 0
noaliasArgumentsFromZero(mod, F) ==
  [mod EXCEPT !.funcs[F].noalias =
     @ \cup {k : k \in 0..(Len(mod.funcs[F].params) - 1)}]

\* noaliasArguments(F): F->setDoesNotAlias(i + 1) for every parameter i
noaliasArguments(mod, F) ==
  [mod EXCEPT !.funcs[F].noalias =
     @ \cup {k + 1 : k \in 0..(Len(mod.funcs[F].params) - 1)}]

(***************************************************************************)
(* createWorkgroup(M, F)                                                   *)
(***************************************************************************)
\* a workgroup function named without the underscore
WorkgroupNameNoUnderscore(F) == F \o "workgroup"

WorkgroupName(F) == F \o "_workgroup"

\* the loop over F's arguments: for the idx-th, a GEP into the argument
\* array, a load of the pointer, a bitcast to a pointer to the argument's
\* type and a load of the value, which is pushed to arguments
RECURSIVE WorkgroupLoop(_, _, _, _)
WorkgroupLoop(params, idx, body, arguments) ==
  IF idx = Len(params)
  THEN [body |-> body, arguments |-> arguments]
  ELSE WorkgroupLoop(
         params, idx + 1,
         body \o << GEP(<<"arg", 0>>, idx),
                    Load(<<"ins", Len(body) + 1>>),
                    BitCast(<<"ins", Len(body) + 2>>, PtrTy(params[idx + 1])),
                    Load(<<"ins", Len(body) + 3>>) >>,
         Append(arguments, <<"ins", Len(body) + 4>>))

\* arguments.back() = ++ai
SetBack(arguments, v) == [arguments EXCEPT ![Len(arguments)] = v]

WorkgroupBody(mod, F) ==
  LET loop == WorkgroupLoop(mod.funcs[F].params, 0, <<>>, <<>>)
  IN  loop.body \o << Call(F, SetBack(loop.arguments, <<"arg", 1>>)), RetVoid >>

\* M.getOrInsertFunction(name, ft) gives a Function: none of that name is in
\* the module, or the one there has the type ft
CanInsertWorkgroup(mod, F) ==
  \/ WorkgroupName(F) \notin DOMAIN mod.funcs
  \/ /\ mod.funcs[WorkgroupName(F)].params = WorkgroupParams
     /\ mod.funcs[WorkgroupName(F)].ret = VoidTy

createWorkgroup(mod, F) ==
  LET name == WorkgroupName(F)
      old  == IF name \in DOMAIN mod.funcs
              THEN mod.funcs[name]
              ELSE SourceFunction(WorkgroupParams, TRUE)
      new  == [old EXCEPT !.decl = FALSE,
                          !.body = @ \o WorkgroupBody(mod, F)]
  IN  [mod EXCEPT !.funcs = (name :> new) @@ mod.funcs]

(***************************************************************************)
(* Kernel code: a block is [ins, succ], its instructions and the blocks    *)
(* it branches to.  An instruction works on the work-item's private        *)
(* registers dst, x, y and on the buffer shared by the work-group.         *)
(***************************************************************************)
KInst(op, dst, n, x, y) == [op |-> op, dst |-> dst, n |-> n, x |-> x, y |-> y]
LocalId(dst, dim) == KInst("lid", dst, dim, "", "")    \* dst = get_local_id(dim)
Const(dst, n) == KInst("const", dst, n, "", "")        \* dst = n
Add(dst, x, y) == KInst("add", dst, 0, x, y)           \* dst = x + y
LoadShared(dst, x) == KInst("load", dst, 0, x, "")     \* dst = buf[x]
StoreShared(x, y) == KInst("store", "", 0, x, y)       \* buf[x] = y
Barrier == KInst("barrier", "", 0, "", "")             \* barrier()

Block(ins, succ) == [ins |-> ins, succ |-> succ]

Min(S) == CHOOSE x \in S : \A y \in S : x <= y
Max(S) == CHOOSE x \in S : \A y \in S : x >= y

(***************************************************************************)
(* Barrier Tail Replication (spec 4.2).                                    *)
(***************************************************************************)
EndsInBarrier(b) == b.ins # <<>> /\ b.ins[Len(b.ins)].op = "barrier"

\* the positions of the barriers of block b that are not its last
\* instruction
InteriorBarriers(b) == {j \in 1..(Len(b.ins) - 1) : b.ins[j].op = "barrier"}

\* block n split after its instruction j: the rest becomes a new block
\* that takes over the successors
SplitBlock(cfg, n, j) ==
  [m \in 1..(Len(cfg) + 1) |->
     IF m = n THEN Block(SubSeq(cfg[n].ins, 1, j), {Len(cfg) + 1})
     ELSE IF m = Len(cfg) + 1
          THEN Block(SubSeq(cfg[n].ins, j + 1, Len(cfg[n].ins)), cfg[n].succ)
          ELSE cfg[m]]

\* every barrier that is not block-terminal gets its block split after it
RECURSIVE SplitBarriers(_)
SplitBarriers(cfg) ==
  LET todo == {n \in DOMAIN cfg : InteriorBarriers(cfg[n]) # {}}
  IN  IF todo = {} THEN cfg
      ELSE SplitBarriers(
             SplitBlock(cfg, Min(todo), Min(InteriorBarriers(cfg[Min(todo)]))))

Preds(cfg, n) == {m \in DOMAIN cfg : n \in cfg[m].succ}

\* S with the blocks reached from it before a barrier is passed
RECURSIVE Grow(_, _)
Grow(cfg, S) ==
  LET more == UNION {cfg[n].succ : n \in {m \in S : ~EndsInBarrier(cfg[m])}}
  IN  IF more \subseteq S THEN S ELSE Grow(cfg, S \cup more)

\* the tail of barrier block b: b and the path from its barrier to the
\* function's exit or the next barrier
TailOf(cfg, b) == Grow(cfg, {b} \cup cfg[b].succ)

\* a copy of the tail of b for predecessor p alone
CloneTail(cfg, b, p) ==
  LET T == TailOf(cfg, b)
      copy(t) == Len(cfg) + Cardinality({u \in T : u <= t})
      orig(m) == CHOOSE t \in T : copy(t) = m
  IN  [m \in 1..(Len(cfg) + Cardinality(T)) |->
         IF m = p THEN [cfg[p] EXCEPT !.succ = (@ \ {b}) \cup {copy(b)}]
         ELSE IF m <= Len(cfg) THEN cfg[m]
         ELSE Block(cfg[orig(m)].ins,
                    {IF u \in T THEN copy(u) ELSE u : u \in cfg[orig(m)].succ})]

\* every block that ends in a barrier and has several predecessors gets
\* its tail cloned, once per predecessor
RECURSIVE ReplicateTails(_)
ReplicateTails(cfg) ==
  LET todo == {n \in DOMAIN cfg :
                 EndsInBarrier(cfg[n]) /\ Cardinality(Preds(cfg, n)) > 1}
  IN  IF todo = {} THEN cfg
      ELSE ReplicateTails(CloneTail(cfg, Min(todo), Max(Preds(cfg, Min(todo)))))

BarrierTailReplication(cfg) == ReplicateTails(SplitBarriers(cfg))

(***************************************************************************)
(* Work-Item Replication (spec 4.3), of a kernel whose blocks follow one   *)
(* another without branches.                                               *)
(***************************************************************************)
\* the regions in program order: the instructions from the entry or a
\* barrier to the next barrier or the exit, the barrier left out
RECURSIVE RegionsFrom(_, _, _, _)
RegionsFrom(cfg, n, cur, acc) ==
  LET b == cfg[n]
      work == IF EndsInBarrier(b) THEN SubSeq(b.ins, 1, Len(b.ins) - 1)
              ELSE b.ins
      cur2 == IF EndsInBarrier(b) THEN <<>> ELSE cur \o work
      acc2 == IF EndsInBarrier(b) THEN Append(acc, cur \o work) ELSE acc
  IN  IF b.succ = {} THEN Append(acc2, cur2)
      ELSE RegionsFrom(cfg, CHOOSE s \in b.succ : TRUE, cur2, acc2)

RegionsOf(cfg) == IF cfg = <<>> THEN <<>> ELSE RegionsFrom(cfg, 1, <<>>, <<>>)

\* the work-items of a work-group, and the local id of the w-th of them
WorkItems(ls) == 0 .. (ls[1] * ls[2] * ls[3] - 1)

LocalIdOf(w, ls) ==
  << w % ls[1], (w \div ls[1]) % ls[2], w \div (ls[1] * ls[2]) >>

\* register r of work-item w; <<>> where the instruction names none
Private(w, r) == IF r = "" THEN <<>> ELSE <<w, r>>

\* the clone of one instruction for work-item w: its private registers
\* are the clone's own copies and its local id is the clone's; the
\* shared buffer is the same for every clone
CloneFor(ins, w, r, ls) ==
  [op |-> IF ins.op = "lid" THEN "const" ELSE ins.op,
   dst |-> Private(w, ins.dst),
   n |-> IF ins.op = "lid" THEN LocalIdOf(w, ls)[ins.n + 1] ELSE ins.n,
   x |-> Private(w, ins.x),
   y |-> Private(w, ins.y),
   wi |-> w,
   region |-> r]

CloneRegion(region, w, r, ls) ==
  [k \in 1..Len(region) |-> CloneFor(region[k], w, r, ls)]

\* the clones of region r for the work-items from w on
RECURSIVE ReplicateRegion(_, _, _, _)
ReplicateRegion(region, w, r, ls) ==
  IF w \notin WorkItems(ls) THEN <<>>
  ELSE CloneRegion(region, w, r, ls) \o ReplicateRegion(region, w + 1, r, ls)

\* every clone of a region before any clone of the next
RECURSIVE ReplicateFrom(_, _, _)
ReplicateFrom(regions, r, ls) ==
  IF r > Len(regions) THEN <<>>
  ELSE ReplicateRegion(regions[r], 0, r, ls)
         \o ReplicateFrom(regions, r + 1, ls)

WorkitemReplication(cfg, ls) == ReplicateFrom(RegionsOf(cfg), 1, ls)

\* what one instruction does to the registers and the shared buffer of
\* the work-item with local id lid; the buffer is indexed modulo its size
Slot(buf, v) == (v % Len(buf)) + 1

Effect(ins, regs, buf, lid) ==
  LET set(v) == (ins.dst :> v) @@ regs
  IN  CASE ins.op = "lid" -> [regs |-> set(lid[ins.n + 1]), buf |-> buf]
        [] ins.op = "const" -> [regs |-> set(ins.n), buf |-> buf]
        [] ins.op = "add" ->
             [regs |-> set(regs[ins.x] + regs[ins.y]), buf |-> buf]
        [] ins.op = "load" ->
             [regs |-> set(buf[Slot(buf, regs[ins.x])]), buf |-> buf]
        [] ins.op = "store" ->
             [regs |-> regs,
              buf |-> [buf EXCEPT ![Slot(buf, regs[ins.x])] = regs[ins.y]]]
        [] OTHER -> [regs |-> regs, buf |-> buf]

(***************************************************************************)
(* Workgroup::runOnModule                                                  *)
(***************************************************************************)
\* the first loop: every function that is not a declaration gets internal
\* linkage (and is handed to the inliner)
InternalizeAll(mod) ==
  [mod EXCEPT !.funcs =
     [f \in DOMAIN mod.funcs |->
        IF mod.funcs[f].decl
        THEN mod.funcs[f]
        ELSE [mod.funcs[f] EXCEPT !.linkage = "Internal"]]]

\* Function *K = cast<Function>(Kernels->getOperand(i)->getOperand(0))
K == M.Kernels.ops[i + 1]

\* the filter's test without its test for the empty filter
FilteredAlsoWhenEmpty(name) == name # Kernel

\* (Kernel != "") && (K->getName() != Kernel)
Filtered(name) == (Kernel # "") /\ (name # Kernel)

\* the two lines with the local size's line first
HeaderLinesSizeFirst(name) ==
  << "#define _" \o name \o "_LOCAL_SIZE {}",
     "#define _" \o name \o "_NUM_LOCALS 0" >>

\* the two lines written to the header for kernel name
HeaderLines(name) ==
  << "#define _" \o name \o "_NUM_LOCALS 0",
     "#define _" \o name \o "_LOCAL_SIZE {}" >>

\* the conversion of getLimitedValue()'s uint64_t to the int of LocalSize:
\* a work-group size in the metadata is a non-negative value below 2^31,
\* which the conversion keeps
ToInt(v) == v

\* the loop over SizeInfo's operands: every operand whose first operand is
\* the kernel sets the three entries of LocalSize
RECURSIVE OverrideLocalSize(_, _, _, _)
OverrideLocalSize(ops, name, ls, idx) ==
  IF idx = Len(ops)
  THEN ls
  ELSE OverrideLocalSize(
         ops, name,
         IF ops[idx + 1][1] = name
         THEN << ToInt(ops[idx + 1][2]),
                 ToInt(ops[idx + 1][3]),
                 ToInt(ops[idx + 1][4]) >>
         ELSE ls,
         idx + 1)

\* if (SizeInfo) { ... }
SizeFor(mod, name, ls) ==
  IF mod.SizeInfo.null THEN ls
  ELSE OverrideLocalSize(mod.SizeInfo.ops, name, ls, 0)

\* BTR.runOnFunction(*K): the kernel's barriers end their blocks
BarrierTailReplicationRun(mod, name) ==
  [mod EXCEPT !.funcs[name].barrierTail = TRUE,
              !.funcs[name].cfg = BarrierTailReplication(@)]

\* WR.doInitialization(M); WR.runOnFunction(*K): the kernel's regions are
\* replicated for the local size configured at the call
WorkitemReplicationRun(mod, name, ls) ==
  [mod EXCEPT !.funcs[name].replicas = ls,
              !.funcs[name].wicode =
                 WorkitemReplication(mod.funcs[name].cfg, ls)]

\* BasicInliner BI ... BI.inlineFunctions(), and the streams and metadata
\* handles set up before the loop
Inline ==
  /\ pc = "inline"
  /\ M' = InternalizeAll(M)
  /\ trace' = Append(trace, <<"inline", "">>)
  /\ i' = 0
  /\ pc' = "loop"
  /\ UNCHANGED <<Kernel, LocalSize, OldLocalSize, out, L, ext, src, abiVars, wg, th, bm>>

\* Kernels->getNumOperands() with no "opencl.kernels" node in the module:
\* a call through a null pointer
KernelsMissing ==
  /\ pc = "loop"
  /\ M.Kernels.null
  /\ pc' = "crashed"
  /\ UNCHANGED <<M, Kernel, LocalSize, OldLocalSize, i, out, trace, L, ext, src, abiVars, wg, th, bm>>

\* i == e: return true
Return ==
  /\ pc = "loop"
  /\ ~M.Kernels.null
  /\ i = Len(M.Kernels.ops)
  /\ pc' = "done"
  /\ UNCHANGED <<M, Kernel, LocalSize, OldLocalSize, i, out, trace, L, ext, src, abiVars, wg, th, bm>>

\* continue
SkipKernel ==
  /\ pc = "loop"
  /\ ~M.Kernels.null
  /\ i # Len(M.Kernels.ops)
  /\ Filtered(K)
  /\ i' = i + 1
  /\ UNCHANGED <<M, Kernel, LocalSize, OldLocalSize, pc, out, trace, L, ext, src, abiVars, wg, th, bm>>

\* out << "#define _" ...
WriteHeader ==
  /\ pc = "loop"
  /\ ~M.Kernels.null
  /\ i # Len(M.Kernels.ops)
  /\ ~Filtered(K)
  /\ out' = out \o HeaderLines(K)
  /\ pc' = "btr"
  /\ UNCHANGED <<M, Kernel, LocalSize, OldLocalSize, i, trace, L, ext, src, abiVars, wg, th, bm>>

\* the loop body without its call of BTR.runOnFunction
RunBTRSkipped ==
  /\ pc = "btr"
  /\ pc' = "size"
  /\ UNCHANGED <<M, Kernel, LocalSize, OldLocalSize, i, out, trace, L, ext, src, abiVars, wg, th, bm>>

RunBTR ==
  /\ pc = "btr"
  /\ M' = BarrierTailReplicationRun(M, K)
  /\ trace' = Append(trace, <<"btr", K>>)
  /\ pc' = "size"
  /\ UNCHANGED <<Kernel, LocalSize, OldLocalSize, i, out, L, ext, src, abiVars, wg, th, bm>>

\* BTR.runOnFunction does not return: the kernel's barriers cannot be
\* reconciled, and control leaves runOnModule
FailBTR ==
  /\ pc = "btr"
  /\ pc' = "failed"
  /\ UNCHANGED <<M, Kernel, LocalSize, OldLocalSize, i, out, trace, L, ext, src, abiVars, wg, th, bm>>

\* OldLocalSize[i] = LocalSize[i], then the override from the metadata
SaveAndOverride ==
  /\ pc = "size"
  /\ OldLocalSize' = LocalSize
  /\ LocalSize' = SizeFor(M, K, LocalSize)
  /\ pc' = "wr"
  /\ UNCHANGED <<M, Kernel, i, out, trace, L, ext, src, abiVars, wg, th, bm>>

\* the loop body without its call of WR.runOnFunction
RunWRSkipped ==
  /\ pc = "wr"
  /\ pc' = "restore"
  /\ UNCHANGED <<M, Kernel, LocalSize, OldLocalSize, i, out, trace, L, ext, src, abiVars, wg, th, bm>>

RunWR ==
  /\ pc = "wr"
  /\ M' = WorkitemReplicationRun(M, K, LocalSize)
  /\ trace' = Append(trace, <<"wr", K>>)
  /\ pc' = "restore"
  /\ UNCHANGED <<Kernel, LocalSize, OldLocalSize, i, out, L, ext, src, abiVars, wg, th, bm>>

\* WR.runOnFunction does not return: the local size does not fit the
\* kernel, and control leaves runOnModule
FailWR ==
  /\ pc = "wr"
  /\ pc' = "failed"
  /\ UNCHANGED <<M, Kernel, LocalSize, OldLocalSize, i, out, trace, L, ext, src, abiVars, wg, th, bm>>

\* Restore without the copy back from OldLocalSize
RestoreSkipped ==
  /\ pc = "restore"
  /\ pc' = "launcher"
  /\ UNCHANGED <<M, Kernel, LocalSize, OldLocalSize, i, out, trace, L, ext, src, abiVars, wg, th, bm>>

\* LocalSize[i] = OldLocalSize[i]
Restore ==
  /\ pc = "restore"
  /\ LocalSize' = OldLocalSize
  /\ pc' = "launcher"
  /\ UNCHANGED <<M, Kernel, OldLocalSize, i, out, trace, L, ext, src, abiVars, wg, th, bm>>

\* Function *L = createLauncher(M, K); L->addFnAttr(Attribute::NoInline);
\* noaliasArguments(L)
CreateLauncher ==
  /\ pc = "launcher"
  /\ L' = LauncherName(M, K)
  /\ M' = noaliasArguments(addFnAttr(createLauncher(M, K), L', "NoInline"), L')
  /\ trace' = Append(trace, <<"launcher", K>>)
  /\ pc' = "workgroup"
  /\ UNCHANGED <<Kernel, LocalSize, OldLocalSize, i, out, ext, src, abiVars, wg, th, bm>>

\* createWorkgroup(M, L), and ++i; assert(workgroup != NULL) ends the run
\* when the module holds another function of the workgroup's name
CreateWorkgroup ==
  /\ pc = "workgroup"
  /\ IF CanInsertWorkgroup(M, L)
     THEN /\ M' = createWorkgroup(M, L)
          /\ trace' = Append(trace, <<"workgroup", K>>)
          /\ i' = i + 1
          /\ pc' = "loop"
     ELSE /\ pc' = "failed"
          /\ UNCHANGED <<M, trace, i>>
  /\ UNCHANGED <<Kernel, LocalSize, OldLocalSize, out, L, ext, src, abiVars, wg, th, bm>>

Next ==
  \/ Inline
  \/ KernelsMissing
  \/ Return
  \/ SkipKernel
  \/ WriteHeader
  \/ RunBTR
  \/ FailBTR
  \/ SaveAndOverride
  \/ RunWR
  \/ FailWR
  \/ Restore
  \/ CreateLauncher
  \/ CreateWorkgroup

(***************************************************************************)
(* pocl_threads.h: the atomic operations on a shared counter and the       *)
(* checked wrappers of the pthread primitives, used by the threads of one  *)
(* process.                                                                *)
(***************************************************************************)
NThreads == 2
MaxOps == 2

Threads == 1..NThreads

\* what a pthread primitive returns: 0, or an error number
ETIMEDOUT == 110
EINVAL == 22
Statuses == {0, ETIMEDOUT, EINVAL}

\* PTHREAD_CHECK2(_status_ok, _code): pocl_abort_on_pthread_error is called
PTHREAD_CHECK2(status_ok, code) == code # 0 /\ code # status_ok

PTHREAD_CHECK(code) == PTHREAD_CHECK2(0, code)

\* no macro has run
NoCall ==
  [w |-> "", t |-> 0, args |-> <<>>, statuses |-> <<>>, value |-> <<>>,
   before |-> 0]

\* no process uses the header
NoProcess ==
  [x |-> 0, x0 |-> 0, incs |-> 0, decs |-> 0, others |-> 0, owner |-> 0,
   adaptive |-> FALSE, proc |-> "none", n |-> 0, users |-> {},
   last |-> NoCall]

\* thread t may run a macro
CanRun(t) == t \in Threads /\ th.proc = "running" /\ th.n < MaxOps

\* thread t ran atomic macro w: the counter went from th.x to x2, and the
\* macro's value is v
Atomic(t, w, args, x2, v) ==
  [th EXCEPT !.x = x2, !.n = @ + 1, !.users = @ \cup {t},
             !.last = [w |-> w, t |-> t, args |-> args, statuses |-> <<>>,
                       value |-> <<v>>, before |-> th.x]]

\* thread t ran wrapper w, whose primitives returned statuses; abort says
\* that pocl_abort_on_pthread_error was called, which ends the process;
\* owner2 is the lock's owner after a run that was not ended
Wrapped(t, w, statuses, abort, owner2) ==
  [th EXCEPT !.n = @ + 1, !.users = @ \cup {t},
             !.proc = IF abort THEN "aborted" ELSE @,
             !.owner = IF abort THEN @ ELSE owner2,
             !.last = [w |-> w, t |-> t, args |-> <<>>,
                       statuses |-> statuses, value |-> <<>>,
                       before |-> th.x]]

\* the values added, and the values compare-and-swap is called with
AddValues == {2, -1}
SwapValues == {0, 5, 7}

\* __atomic_add_fetch (&x, val, __ATOMIC_SEQ_CST)
POCL_ATOMIC_ADD ==
  /\ \E t \in Threads, val \in AddValues :
       /\ CanRun(t)
       /\ th' = [Atomic(t, "POCL_ATOMIC_ADD", <<val>>, th.x + val, th.x + val)
                   EXCEPT !.others = @ + val]
  /\ UNCHANGED <<passVars, abiVars, wg, bm>>

\* an increment that gives the counter's value from before the operation
POCL_ATOMIC_INC_FetchFirst ==
  /\ \E t \in Threads :
       /\ CanRun(t)
       /\ th' = [Atomic(t, "POCL_ATOMIC_INC", <<>>, th.x + 1, th.x)
                   EXCEPT !.incs = @ + 1]
  /\ UNCHANGED <<passVars, abiVars, wg, bm>>

\* __atomic_add_fetch (&x, 1, __ATOMIC_SEQ_CST)
POCL_ATOMIC_INC ==
  /\ \E t \in Threads :
       /\ CanRun(t)
       /\ th' = [Atomic(t, "POCL_ATOMIC_INC", <<>>, th.x + 1, th.x + 1)
                   EXCEPT !.incs = @ + 1]
  /\ UNCHANGED <<passVars, abiVars, wg, bm>>

\* __atomic_sub_fetch (&x, 1, __ATOMIC_SEQ_CST)
POCL_ATOMIC_DEC ==
  /\ \E t \in Threads :
       /\ CanRun(t)
       /\ th' = [Atomic(t, "POCL_ATOMIC_DEC", <<>>, th.x - 1, th.x - 1)
                   EXCEPT !.decs = @ + 1]
  /\ UNCHANGED <<passVars, abiVars, wg, bm>>

\* __atomic_load_n (&x, __ATOMIC_SEQ_CST)
POCL_ATOMIC_LOAD ==
  /\ \E t \in Threads :
       /\ CanRun(t)
       /\ th' = Atomic(t, "POCL_ATOMIC_LOAD", <<>>, th.x, th.x)
  /\ UNCHANGED <<passVars, abiVars, wg, bm>>

\* __sync_val_compare_and_swap (ptr, oldval, newval)
POCL_ATOMIC_CAS ==
  /\ \E t \in Threads, oldval \in SwapValues, newval \in SwapValues :
       /\ CanRun(t)
       /\ LET x2 == IF th.x = oldval THEN newval ELSE th.x
          IN  th' = [Atomic(t, "POCL_ATOMIC_CAS", <<oldval, newval>>, x2, th.x)
                       EXCEPT !.others = @ + (x2 - th.x)]
  /\ UNCHANGED <<passVars, abiVars, wg, bm>>

\* PTHREAD_CHECK (pthread_mutex_lock (&(__LOCK__))); the primitive returns
\* 0 when it has taken the lock
POCL_LOCK ==
  /\ \E t \in Threads, st \in Statuses :
       /\ CanRun(t)
       /\ st = 0 => th.owner = 0
       /\ th' = Wrapped(t, "POCL_LOCK", <<st>>, PTHREAD_CHECK(st), t)
  /\ UNCHANGED <<passVars, abiVars, wg, bm>>

\* PTHREAD_CHECK (pthread_mutex_unlock (&(__LOCK__)))
POCL_UNLOCK ==
  /\ \E t \in Threads, st \in Statuses :
       /\ CanRun(t)
       /\ st = 0 => th.owner = t
       /\ th' = Wrapped(t, "POCL_UNLOCK", <<st>>, PTHREAD_CHECK(st), 0)
  /\ UNCHANGED <<passVars, abiVars, wg, bm>>

\* a wrapper of one primitive that leaves the lock's owner alone:
\* PTHREAD_CHECK2 (status_ok, primitive (...))
Checked(w, status_ok) ==
  /\ \E t \in Threads, st \in Statuses :
       /\ CanRun(t)
       /\ th' = Wrapped(t, w, <<st>>, PTHREAD_CHECK2(status_ok, st), th.owner)
  /\ UNCHANGED <<passVars, abiVars, wg, bm>>

POCL_INIT_LOCK == Checked("POCL_INIT_LOCK", 0)
POCL_DESTROY_LOCK == Checked("POCL_DESTROY_LOCK", 0)
POCL_INIT_COND == Checked("POCL_INIT_COND", 0)
POCL_DESTROY_COND == Checked("POCL_DESTROY_COND", 0)
POCL_SIGNAL_COND == Checked("POCL_SIGNAL_COND", 0)
POCL_BROADCAST_COND == Checked("POCL_BROADCAST_COND", 0)
POCL_WAIT_COND == Checked("POCL_WAIT_COND", 0)
POCL_TIMEDWAIT_COND == Checked("POCL_TIMEDWAIT_COND", ETIMEDOUT)
POCL_CREATE_THREAD == Checked("POCL_CREATE_THREAD", 0)
POCL_JOIN_THREAD == Checked("POCL_JOIN_THREAD", 0)

\* the runs of POCL_FAST_INIT where PTHREAD_ADAPTIVE_MUTEX_INITIALIZER_NP is
\* defined: the statuses of pthread_mutexattr_init, _settype,
\* pthread_mutex_init and pthread_mutexattr_destroy, up to the primitive
\* whose status ended the process; the first status is not looked at
FastInitRuns ==
  { st \in UNION { [1..k -> Statuses] : k \in 2..4 } :
      /\ \A j \in 2..(Len(st) - 1) : ~PTHREAD_CHECK(st[j])
      /\ Len(st) < 4 => PTHREAD_CHECK(st[Len(st)]) }

\* POCL_FAST_INIT(l): with the adaptive mutex type as above, else
\* POCL_INIT_LOCK (l)
POCL_FAST_INIT ==
  /\ \E t \in Threads :
       /\ CanRun(t)
       /\ IF th.adaptive
          THEN \E st \in FastInitRuns :
                 th' = Wrapped(t, "POCL_FAST_INIT", st,
                               PTHREAD_CHECK(st[Len(st)]), th.owner)
          ELSE \E st \in Statuses :
                 th' = Wrapped(t, "POCL_FAST_INIT", <<st>>,
                               PTHREAD_CHECK(st), th.owner)
  /\ UNCHANGED <<passVars, abiVars, wg, bm>>

\* the threads' macros; POCL_FAST_LOCK, POCL_FAST_UNLOCK, POCL_FAST_DESTROY
\* and POCL_JOIN_THREAD2 are POCL_LOCK, POCL_UNLOCK, POCL_DESTROY_LOCK and
\* POCL_JOIN_THREAD under other names
NextThreads ==
  \/ POCL_ATOMIC_ADD
  \/ POCL_ATOMIC_INC
  \/ POCL_ATOMIC_DEC
  \/ POCL_ATOMIC_LOAD
  \/ POCL_ATOMIC_CAS
  \/ POCL_LOCK
  \/ POCL_UNLOCK
  \/ POCL_INIT_LOCK
  \/ POCL_DESTROY_LOCK
  \/ POCL_FAST_INIT
  \/ POCL_INIT_COND
  \/ POCL_DESTROY_COND
  \/ POCL_SIGNAL_COND
  \/ POCL_BROADCAST_COND
  \/ POCL_WAIT_COND
  \/ POCL_TIMEDWAIT_COND
  \/ POCL_CREATE_THREAD
  \/ POCL_JOIN_THREAD

(***************************************************************************)
(* The matrix multiplication benchmark: main, from its arguments to the    *)
(* check that the local size divides the matrix size.                      *)
(***************************************************************************)
WPT_R == 8
EXIT_FAILURE == 1

\* no benchmark runs
NoBenchmark ==
  [pc |-> "none", argv2 |-> <<>>, matrix_size |-> 0, explicit_local_wg |-> 0,
   use_locals |-> FALSE, use_2d_reg_block |-> FALSE, max_wg_size |-> 0,
   local_mem_size |-> 0, local_wg |-> 0, printed |-> <<>>, exit |-> <<>>]

\* return code, after printing text
Exit(text, code) ==
  [bm EXCEPT !.pc = "exited", !.printed = Append(@, text), !.exit = <<code>>]

\* if (matrix_size < 64 || matrix_size > 65536 || errno)
CheckMatrixSize ==
  /\ bm.pc = "matrix_size"
  /\ bm' = IF bm.matrix_size < 64 \/ bm.matrix_size > 65536
           THEN Exit("USAGE", EXIT_FAILURE)
           ELSE [bm EXCEPT !.pc = "local_wg_size"]
  /\ UNCHANGED <<passVars, abiVars, wg, th>>

\* if ((argc > 2) && argv[2][0] != '-') ...: the explicit local size,
\* left 0 when none is given; then the options and the checks of the
\* binary's type
CheckLocalSize ==
  /\ bm.pc = "local_wg_size"
  /\ bm' = IF bm.argv2 = <<>>
           THEN [bm EXCEPT !.pc = "device"]
           ELSE IF bm.argv2[1] < 1 \/ bm.argv2[1] > 1024
                THEN [Exit("USAGE", EXIT_FAILURE)
                        EXCEPT !.explicit_local_wg = bm.argv2[1]]
                ELSE [bm EXCEPT !.pc = "device",
                                !.explicit_local_wg = bm.argv2[1]]
  /\ UNCHANGED <<passVars, abiVars, wg, th>>

\* while (cost < limit) local_wg <<= 1, for the three costs of a local size
Cost(kind, l) ==
  CASE kind = "simple" -> l * l
    [] kind = "locals" -> l * 4
    [] kind = "regs" -> l * l * WPT_R
    [] kind = "locals_mem" -> l * l * 8
    [] kind = "regs_mem" -> l * l * WPT_R * 8

RECURSIVE ShiftUp(_, _, _)
ShiftUp(kind, l, limit) ==
  IF Cost(kind, l) < limit THEN ShiftUp(kind, l * 2, limit) ELSE l

\* while (cost > limit) local_wg >>= 1
RECURSIVE ShiftDown(_, _, _)
ShiftDown(kind, l, limit) ==
  IF Cost(kind, l) > limit THEN ShiftDown(kind, l \div 2, limit) ELSE l

\* the local size main picks when none is given
Autodetected ==
  LET minsize == IF bm.max_wg_size < bm.matrix_size
                 THEN bm.max_wg_size ELSE bm.matrix_size
      l1 == IF ~bm.use_locals /\ ~bm.use_2d_reg_block
            THEN ShiftDown("simple", ShiftUp("simple", 1, minsize), minsize)
            ELSE 1
      l2 == IF bm.use_locals
            THEN ShiftDown("locals_mem",
                   ShiftDown("locals", ShiftUp("locals", l1, minsize), minsize),
                   bm.local_mem_size)
            ELSE l1
  IN  IF bm.use_2d_reg_block
      THEN ShiftDown("regs_mem",
             ShiftDown("regs", ShiftUp("regs", l2, minsize), minsize),
             bm.local_mem_size)
      ELSE l2

\* if (explicit_local_wg) { ... } else { ... }
SelectLocalSize ==
  /\ bm.pc = "device"
  /\ bm' =
       IF bm.explicit_local_wg # 0
       THEN LET l == bm.explicit_local_wg
            IN  IF \/ bm.use_2d_reg_block /\ l * l * WPT_R > bm.max_wg_size
                   \/ bm.use_locals /\ l * 4 > bm.max_wg_size
                   \/ /\ ~bm.use_2d_reg_block /\ ~bm.use_locals
                      /\ l * l > bm.max_wg_size
                THEN [Exit("Test SKIPPED", 0) EXCEPT !.local_wg = l]
                ELSE IF \/ bm.use_locals /\ l * l * 8 > bm.local_mem_size
                        \/ /\ bm.use_2d_reg_block
                           /\ (l * WPT_R) * l * 8 > bm.local_mem_size
                     THEN [Exit("required local memory exceeds this device's capabilities.", -1)
                             EXCEPT !.local_wg = l]
                     ELSE [bm EXCEPT !.pc = "div", !.local_wg = l]
       ELSE IF Autodetected = 0
            THEN Exit("this machine doesn't have the resources to run the REG version.", -1)
            ELSE [bm EXCEPT !.pc = "div", !.local_wg = Autodetected,
                            !.printed = Append(@, "Autodetected local_wg")]
  /\ UNCHANGED <<passVars, abiVars, wg, th>>

\* (unsigned)((float)matrix_size / (float)local_wg): both operands are
\* below 2^24 and so exact as floats, and the rounding of the quotient is
\* smaller than its distance from the next integer for these ranges, so
\* that the conversion gives the quotient's integer part
Div(matrix_size, local_wg) == matrix_size \div local_wg

\* float div = ...; if (matrix_size % ((unsigned)div) != 0) ...; the
\* remainder by 0 is undefined: the run may stop there, or take either
\* branch
DivisibilityCheck ==
  /\ bm.pc = "div"
  /\ LET d == Div(bm.matrix_size, bm.local_wg)
         fails == Exit("matrix size must be divisible by local_wg", -1)
         passes == [bm EXCEPT !.pc = "run"]
     IN  IF d = 0
         THEN bm' \in {fails, passes, [bm EXCEPT !.pc = "crashed"]}
         ELSE bm' = IF bm.matrix_size % d # 0 THEN fails ELSE passes
  /\ UNCHANGED <<passVars, abiVars, wg, th>>

NextBenchmark ==
  \/ CheckMatrixSize
  \/ CheckLocalSize
  \/ SelectLocalSize
  \/ DivisibilityCheck

(***************************************************************************)
(* The modules and configurations the pass is run on.                      *)
(***************************************************************************)
KernelNames == {"a", "_a", "b"}
KernelSigs == { <<>>, << IntTy(32), PtrTy(FloatTy) >> }
ExternalSizes == { <<8, 8, 1>>, <<2, 1, 1>> }
MetaSizes == { <<4, 4, 1>> }
Filters == {"", "a", "b"}
DispatchGlobals == {"_group_id", "_num_groups"}

\* the kernel registries: the names in "opencl.kernels", each once
Registries ==
  { r \in UNION { [1..n -> KernelNames] : n \in 0..MaxKernels } :
      \A x, y \in DOMAIN r : x # y => r[x] # r[y] }

\* "opencl.kernel_wg_size_info" with an entry <<kernel, x, y, z>> for the
\* kernels of reg that sized maps to a size
SizeInfoOf(reg, sized) ==
  LET has == SelectSeq(reg, LAMBDA k : k \in DOMAIN sized)
  IN  NamedMD([n \in DOMAIN has |->
                 << has[n], sized[has[n]][1], sized[has[n]][2], sized[has[n]][3] >>])

SizeInfos(reg) ==
  {NullMD} \cup
  UNION { { SizeInfoOf(reg, sized) : sized \in [S -> MetaSizes] } :
          S \in SUBSET Range(reg) }

\* a module with the kernels of reg, a helper function and the declaration
\* of the barrier builtin
ModuleOf(reg, sigs, sizeInfo, globals) ==
  [ funcs |-> [ f \in Range(reg) \cup {"helper", "barrier"} |->
                  IF f \in Range(reg) THEN SourceFunction(sigs[f], FALSE)
                  ELSE SourceFunction(<<>>, f = "barrier") ],
    globals |-> globals,
    Kernels |-> NamedMD(reg),
    SizeInfo |-> sizeInfo ]

\* a module without kernels, in which "opencl.kernels" is not there
NoKernelsModule == [ModuleOf(<<>>, <<>>, NullMD, {}) EXCEPT !.Kernels = NullMD]

Modules ==
  {NoKernelsModule} \cup
  UNION { { ModuleOf(reg, sigs, si, g) :
              sigs \in [Range(reg) -> KernelSigs],
              si \in SizeInfos(reg),
              g \in SUBSET DispatchGlobals } :
          reg \in Registries }

\* no workgroup function has been dispatched
NoDispatch ==
  /\ stack = <<>>
  /\ mem = [argv |-> <<>>, cells |-> <<>>, ctx |-> <<>>, globals |-> <<>>]
  /\ dispatch = [fn |-> "", kernel |-> "", vals |-> <<>>, ctx |-> <<>>]
  /\ calls = <<>>
  /\ reads = {}
  /\ status = "idle"
  /\ wg = [ip |-> 1, priv |-> <<>>, buf |-> <<>>, buf0 |-> <<>>]
  /\ th = NoProcess
  /\ bm = NoBenchmark

Init ==
  /\ M \in Modules
  /\ Kernel \in Filters
  /\ LocalSize \in ExternalSizes
  /\ ext = LocalSize
  /\ src = M
  /\ OldLocalSize = <<0, 0, 0>>
  /\ pc = "inline"
  /\ i = 0
  /\ out = <<>>
  /\ trace = <<>>
  /\ L = ""
  /\ NoDispatch

Spec == Init /\ [][Next]_vars

(***************************************************************************)
(* The dispatch context as the host lays it out, and as the generated      *)
(* code reads it through PoclContextType.                                  *)
(***************************************************************************)
\* struct _pocl_context { cl_uint work_dim; cl_uint num_groups[3];
\* cl_uint group_id[3]; cl_uint global_offset[3]; } in 32-bit words
HostContextWords(c) ==
  <<c.work_dim>> \o c.num_groups \o c.group_id \o c.global_offset

\* the size of a value of type ty, in 32-bit words
RECURSIVE SizeOf(_)
RECURSIVE SizeOfFields(_, _)
SizeOfFields(fields, n) ==
  IF n = 0 THEN 0 ELSE SizeOfFields(fields, n - 1) + SizeOf(fields[n])

SizeOf(ty) ==
  CASE ty[1] = "int"    -> (ty[2] + 31) \div 32
    [] ty[1] = "float"  -> 1
    [] ty[1] = "array"  -> ty[3] * SizeOf(ty[2])
    [] ty[1] = "struct" -> SizeOfFields(ty[2], Len(ty[2]))
    [] OTHER            -> 1

\* the word at which field number field of struct type ty begins
FieldOffset(ty, field) == SizeOfFields(ty[2], field)

\* the type of field number field of struct type ty
FieldType(ty, field) == ty[2][field + 1]

\* the words of field number field in a context laid out as words
FieldWords(words, ty, field) ==
  SubSeq(words, FieldOffset(ty, field) + 1,
         FieldOffset(ty, field) + SizeOf(FieldType(ty, field)))

(***************************************************************************)
(* A dispatch: the host calls a workgroup function, and the generated      *)
(* instructions run one at a time.                                         *)
(***************************************************************************)
MaxParams == 2

ParamTypes == { IntTy(32), FloatTy, PtrTy(FloatTy) }
ParamLists == UNION { [1..n -> ParamTypes] : n \in 0..MaxParams }
ParamValues == {5, 9}

\* the context of the spec's layout example, and another
ExampleContext ==
  [ work_dim |-> 2, num_groups |-> <<4, 4, 1>>,
    group_id |-> <<1, 2, 0>>, global_offset |-> <<0, 0, 0>> ]
Contexts ==
  { ExampleContext,
    [ work_dim |-> 1, num_groups |-> <<3, 1, 1>>,
      group_id |-> <<2, 0, 0>>, global_offset |-> <<6, 0, 0>> ] }

\* run-time values: data of a type, or a pointer of one of the kinds slot
\* (into the argument array), ptr (to a memory cell), ctx (to the context),
\* field (to a field of the context), wild (not to any object)
Val(k, a, ty, v) == [k |-> k, a |-> a, ty |-> ty, v |-> v]
ArgvPtr == Val("slot", 0, PtrTy(IntTy(8)), <<>>)
CtxPtr == Val("ctx", 0, PoclContextType, <<>>)
Undef(ty) == Val("undef", 0, ty, <<>>)

\* the workgroup functions of the module
EntryFunctions ==
  {f \in DOMAIN M.funcs : ~M.funcs[f].decl /\ M.funcs[f].params = WorkgroupParams}

\* the function that function f calls
CalleeOf(f) ==
  LET body == M.funcs[f].body
  IN  body[CHOOSE n \in DOMAIN body : body[n].op = "call"].callee

\* the host calls workgroup function f with an argument array that holds a
\* pointer to a value of each parameter of the kernel (and, with extra, one
\* more entry) and with a pointer to a context
Dispatch ==
  /\ pc = "done"
  /\ status = "idle"
  /\ \E f \in EntryFunctions, c \in Contexts, extra \in BOOLEAN :
       LET k == CalleeOf(CalleeOf(f))
           sig == M.funcs[k].params
           n == Len(sig)
       IN  \E vals \in [1..n -> ParamValues] :
             /\ dispatch' = [fn |-> f, kernel |-> k, vals |-> vals, ctx |-> c]
             /\ mem' = [ argv |-> [a \in 1..(IF extra THEN n + 1 ELSE n) |-> a],
                         cells |-> [a \in 1..(IF extra THEN n + 1 ELSE n) |->
                                      IF a <= n
                                      THEN [ty |-> sig[a], v |-> vals[a]]
                                      ELSE [ty |-> IntTy(8), v |-> 0]],
                         ctx |-> HostContextWords(c),
                         globals |-> [g \in M.globals |-> <<0, 0, 0>>] ]
             /\ stack' = << [fn |-> f, ip |-> 1, regs |-> <<>>,
                             args |-> <<ArgvPtr, CtxPtr>>] >>
  /\ status' = "running"
  /\ UNCHANGED <<passVars, wg, th, bm, calls, reads>>

\* the running frame, its next instruction and the value of an operand
Top == stack[Len(stack)]
Cur == M.funcs[Top.fn].body[Top.ip]
Eval(ref) == IF ref[1] = "arg" THEN Top.args[ref[2] + 1] ELSE Top.regs[ref[2]]
Running(op) == status = "running" /\ Cur.op = op

\* the stack after the running frame's instruction gave result
Advance(result) ==
  [stack EXCEPT ![Len(stack)] =
     [@ EXCEPT !.ip = @ + 1, !.regs = Append(@, result)]]

\* a load through ptr reads no object: the pointer is past the end of the
\* argument array, or is the outcome of such a load
OutOfBounds(ptr) ==
  \/ ptr.k = "slot" /\ ptr.a >= Len(mem.argv)
  \/ ptr.k \in {"wild", "undef"}

\* what a load through ptr gives
LoadResult(ptr) ==
  CASE ptr.k = "slot" /\ ptr.a < Len(mem.argv) ->
         Val("ptr", mem.argv[ptr.a + 1], IntTy(8), <<>>)
    [] ptr.k = "slot" /\ ptr.a >= Len(mem.argv) ->
         Val("wild", 0, IntTy(8), <<>>)
    [] ptr.k = "ptr" ->
         IF mem.cells[ptr.a].ty = ptr.ty
         THEN Val("data", 0, ptr.ty, <<mem.cells[ptr.a].v>>)
         ELSE Undef(ptr.ty)
    [] ptr.k = "field" ->
         Val("data", 0, ptr.ty, FieldWords(mem.ctx, PoclContextType, ptr.a))
    [] OTHER -> Undef(ptr.ty)

ExecGEP ==
  /\ Running("gep")
  /\ stack' = Advance([Eval(Cur.x) EXCEPT !.a = @ + Cur.n])
  /\ UNCHANGED <<passVars, wg, th, bm, mem, dispatch, calls, reads, status>>

ExecStructGEP ==
  /\ Running("structgep")
  /\ stack' = Advance(Val("field", Cur.n, FieldType(Eval(Cur.x).ty, Cur.n), <<>>))
  /\ UNCHANGED <<passVars, wg, th, bm, mem, dispatch, calls, reads, status>>

ExecLoad ==
  /\ Running("load")
  /\ stack' = Advance(LoadResult(Eval(Cur.x)))
  /\ reads' = IF Eval(Cur.x).k = "slot" THEN reads \cup {Eval(Cur.x).a} ELSE reads
  /\ UNCHANGED <<passVars, wg, th, bm, mem, dispatch, calls, status>>

\* a load that reads no object may also fault
ExecLoadFault ==
  /\ Running("load")
  /\ OutOfBounds(Eval(Cur.x))
  /\ reads' = IF Eval(Cur.x).k = "slot" THEN reads \cup {Eval(Cur.x).a} ELSE reads
  /\ status' = "trapped"
  /\ UNCHANGED <<passVars, wg, th, bm, stack, mem, dispatch, calls>>

\* a cast of a pointer to a pointer to another type
ExecBitCast ==
  /\ Running("bitcast")
  /\ stack' = Advance([Eval(Cur.x) EXCEPT !.ty = Cur.ty[2]])
  /\ UNCHANGED <<passVars, wg, th, bm, mem, dispatch, calls, reads, status>>

ExecStore ==
  /\ Running("store")
  /\ mem' = [mem EXCEPT !.globals[Cur.callee] = Eval(Cur.x).v]
  /\ stack' = Advance(Undef(VoidTy))
  /\ UNCHANGED <<passVars, wg, th, bm, dispatch, calls, reads, status>>

\* a call runs the callee's instructions; a kernel's body is not
\* interpreted, the call of it is recorded
ExecCall ==
  /\ Running("call")
  /\ LET actuals == [n \in DOMAIN Cur.args |-> Eval(Cur.args[n])]
     IN  /\ calls' = Append(calls, [callee |-> Cur.callee, args |-> actuals])
         /\ stack' = IF M.funcs[Cur.callee].body = <<>>
                     THEN Advance(Undef(VoidTy))
                     ELSE Append(Advance(Undef(VoidTy)),
                                 [fn |-> Cur.callee, ip |-> 1, regs |-> <<>>,
                                  args |-> actuals])
  /\ UNCHANGED <<passVars, wg, th, bm, mem, dispatch, reads, status>>

ExecRet ==
  /\ Running("ret")
  /\ stack' = SubSeq(stack, 1, Len(stack) - 1)
  /\ status' = IF Len(stack) = 1 THEN "returned" ELSE "running"
  /\ UNCHANGED <<passVars, wg, th, bm, mem, dispatch, calls, reads>>

\* the modules of one kernel, of every signature
OneKernelModules ==
  { ModuleOf(<<"a">>, [f \in {"a"} |-> sig], NullMD, g) :
      sig \in ParamLists, g \in SUBSET DispatchGlobals }

InitABI ==
  /\ M \in OneKernelModules
  /\ Kernel = ""
  /\ LocalSize = <<2, 1, 1>>
  /\ ext = LocalSize
  /\ src = M
  /\ OldLocalSize = <<0, 0, 0>>
  /\ pc = "inline"
  /\ i = 0
  /\ out = <<>>
  /\ trace = <<>>
  /\ L = ""
  /\ NoDispatch

\* the pass compiles the kernel, and the host dispatches it
NextABI ==
  \/ Inline
  \/ Return
  \/ WriteHeader
  \/ RunBTR
  \/ SaveAndOverride
  \/ RunWR
  \/ Restore
  \/ CreateLauncher
  \/ CreateWorkgroup
  \/ Dispatch
  \/ ExecGEP
  \/ ExecStructGEP
  \/ ExecLoad
  \/ ExecLoadFault
  \/ ExecBitCast
  \/ ExecStore
  \/ ExecCall
  \/ ExecRet

SpecABI == InitABI /\ [][NextABI]_vars

(***************************************************************************)
(* The pass up to the Barrier Tail Replication, on a module whose kernel   *)
(* has a control-flow graph.                                               *)
(***************************************************************************)
MaxBlocks == 3

\* what a block holds: work, with barriers in any place
BlockBodies ==
  { << Const("q", 1) >>,
    << Barrier >>,
    << Const("q", 1), Barrier >>,
    << Barrier, Const("q", 1) >>,
    << Const("q", 1), Barrier, Const("q", 1), Barrier, Const("q", 1) >> }

\* the blocks n reaches
RECURSIVE ReachFrom(_, _)
ReachFrom(cfg, S) ==
  LET more == UNION {cfg[n].succ : n \in S}
  IN  IF more \subseteq S THEN S ELSE ReachFrom(cfg, S \cup more)

\* the graphs of up to MaxBlocks blocks with forward branches to at most
\* two blocks, every block reached from the entry
CFGs ==
  UNION { { g \in [1..n -> [ins : BlockBodies, succ : SUBSET (1..n)]] :
              /\ \A m \in 1..n : /\ \A u \in g[m].succ : u > m
                                 /\ Cardinality(g[m].succ) <= 2
              /\ ReachFrom(g, {1}) = 1..n } :
          n \in 1..MaxBlocks }

KernelModule(params, cfg, sizeInfo, globals) ==
  [ModuleOf(<<"a">>, [f \in {"a"} |-> params], sizeInfo, globals)
     EXCEPT !.funcs["a"].cfg = cfg]

InitBTR ==
  /\ M \in { KernelModule(<<>>, g, NullMD, {}) : g \in CFGs }
  /\ Kernel = ""
  /\ LocalSize = <<2, 1, 1>>
  /\ ext = LocalSize
  /\ src = M
  /\ OldLocalSize = <<0, 0, 0>>
  /\ pc = "inline"
  /\ i = 0
  /\ out = <<>>
  /\ trace = <<>>
  /\ L = ""
  /\ NoDispatch

NextBTR ==
  \/ Inline
  \/ WriteHeader
  \/ RunBTR
  \/ FailBTR

SpecBTR == InitBTR /\ [][NextBTR]_vars

(***************************************************************************)
(* The pass on a module whose kernel is straight-line code, and one        *)
(* work-group running the transformed kernel.                              *)
(***************************************************************************)
MaxBody == 3
BufLen == 2

\* what a kernel body is made of
BodyInstructions ==
  { LocalId("p", 0), LocalId("q", 1), Const("q", 1), Add("p", "p", "q"),
    LoadShared("q", "p"), StoreShared("p", "q"), Barrier }

\* the registers an instruction reads
Uses(ins) == {ins.x, ins.y} \ {""}

\* a body reads no register before it writes it
Defined(body) ==
  \A k \in DOMAIN body :
    \A r \in Uses(body[k]) : \E j \in 1..(k - 1) : body[j].dst = r

Bodies ==
  UNION { { b \in [1..n -> BodyInstructions] : Defined(b) } :
          n \in 0..MaxBody }

WRSizes ==
  { <<1, 1, 1>>, <<2, 1, 1>>, <<3, 1, 1>>, <<2, 2, 1>>, <<1, 2, 2>> }

Buffers == [1..BufLen -> {0, 1}]

\* the transformed kernel runs its next instruction
KernelStep ==
  /\ pc = "done"
  /\ \E k \in Range(M.Kernels.ops) :
       /\ wg.ip \in DOMAIN M.funcs[k].wicode
       /\ LET ins == M.funcs[k].wicode[wg.ip]
              e == Effect(ins, wg.priv, wg.buf, <<0, 0, 0>>)
          IN  wg' = [wg EXCEPT !.ip = @ + 1, !.priv = e.regs, !.buf = e.buf]
  /\ UNCHANGED <<passVars, abiVars, th, bm>>

InitWR ==
  /\ M \in { KernelModule(<<>>, << Block(b, {}) >>, NullMD, {}) :
               b \in Bodies }
  /\ Kernel = ""
  /\ LocalSize \in WRSizes
  /\ ext = LocalSize
  /\ src = M
  /\ OldLocalSize = <<0, 0, 0>>
  /\ pc = "inline"
  /\ i = 0
  /\ out = <<>>
  /\ trace = <<>>
  /\ L = ""
  /\ stack = <<>>
  /\ mem = [argv |-> <<>>, cells |-> <<>>, ctx |-> <<>>, globals |-> <<>>]
  /\ dispatch = [fn |-> "", kernel |-> "", vals |-> <<>>, ctx |-> <<>>]
  /\ calls = <<>>
  /\ reads = {}
  /\ status = "idle"
  /\ \E b \in Buffers : wg = [ip |-> 1, priv |-> <<>>, buf |-> b, buf0 |-> b]
  /\ th = NoProcess
  /\ bm = NoBenchmark

NextWR ==
  \/ Inline
  \/ WriteHeader
  \/ RunBTR
  \/ SaveAndOverride
  \/ RunWR
  \/ Restore
  \/ CreateLauncher
  \/ CreateWorkgroup
  \/ Return
  \/ KernelStep

SpecWR == InitWR /\ [][NextWR]_vars

(***************************************************************************)
(* A process whose threads use pocl_threads.h.                             *)
(***************************************************************************)
InitThreads ==
  /\ M = NoKernelsModule
  /\ Kernel = ""
  /\ LocalSize = <<2, 1, 1>>
  /\ ext = LocalSize
  /\ src = M
  /\ OldLocalSize = <<0, 0, 0>>
  /\ pc = "done"
  /\ i = 0
  /\ out = <<>>
  /\ trace = <<>>
  /\ L = ""
  /\ stack = <<>>
  /\ mem = [argv |-> <<>>, cells |-> <<>>, ctx |-> <<>>, globals |-> <<>>]
  /\ dispatch = [fn |-> "", kernel |-> "", vals |-> <<>>, ctx |-> <<>>]
  /\ calls = <<>>
  /\ reads = {}
  /\ status = "idle"
  /\ wg = [ip |-> 1, priv |-> <<>>, buf |-> <<>>, buf0 |-> <<>>]
  /\ \E x0 \in SwapValues, adaptive \in BOOLEAN :
       th = [NoProcess EXCEPT !.x = x0, !.x0 = x0, !.adaptive = adaptive,
                              !.proc = "running"]
  /\ bm = NoBenchmark

SpecThreads == InitThreads /\ [][NextThreads]_vars

(***************************************************************************)
(* Runs of the benchmark.                                                  *)
(***************************************************************************)
MatrixSizes == {63, 64, 96, 100, 128, 1000, 1024, 4096, 65536, 65537}
LocalSizes == {0, 1, 3, 8, 16, 48, 80, 100, 1024, 1025}
MaxWorkGroupSizes == {256, 4096}
LocalMemSizes == {1024, 32768, 65536}

InitBenchmark ==
  /\ M = NoKernelsModule
  /\ Kernel = ""
  /\ LocalSize = <<2, 1, 1>>
  /\ ext = LocalSize
  /\ src = M
  /\ OldLocalSize = <<0, 0, 0>>
  /\ pc = "done"
  /\ i = 0
  /\ out = <<>>
  /\ trace = <<>>
  /\ L = ""
  /\ stack = <<>>
  /\ mem = [argv |-> <<>>, cells |-> <<>>, ctx |-> <<>>, globals |-> <<>>]
  /\ dispatch = [fn |-> "", kernel |-> "", vals |-> <<>>, ctx |-> <<>>]
  /\ calls = <<>>
  /\ reads = {}
  /\ status = "idle"
  /\ wg = [ip |-> 1, priv |-> <<>>, buf |-> <<>>, buf0 |-> <<>>]
  /\ th = NoProcess
  /\ \E m \in MatrixSizes, a \in {<<>>} \cup {<<l>> : l \in LocalSizes},
        w \in MaxWorkGroupSizes, lm \in LocalMemSizes,
        ul \in BOOLEAN, ur \in BOOLEAN :
       bm = [NoBenchmark EXCEPT !.pc = "matrix_size", !.matrix_size = m,
                                !.argv2 = a, !.use_locals = ul,
                                !.use_2d_reg_block = ur, !.max_wg_size = w,
                                !.local_mem_size = lm]

SpecBenchmark == InitBenchmark /\ [][NextBenchmark]_vars

(***************************************************************************)
(* Properties of the pass.                                                 *)
(***************************************************************************)
\* the kernels of the registry
Registry == IF M.Kernels.null THEN <<>> ELSE M.Kernels.ops

\* the kernels the loop does not skip
Compiled == {k \in Range(Registry) : ~Filtered(k)}

\* the size entries the metadata holds for kernel k
MetaEntries(k) ==
  IF M.SizeInfo.null THEN {}
  ELSE {e \in Range(M.SizeInfo.ops) : e[1] = k}

\* control is outside the window between the override and the restore
OutsideOverride == pc \in {"inline", "loop", "btr", "size", "launcher", "workgroup", "done"}

\* C5: a kernel with required-size metadata is replicated with the
\* metadata's triple, a kernel without it with the externally configured
\* triple; the configured triple is in force again once the kernel's
\* replication has returned, for the next kernel and after the run.
C5_OverrideAndRestore ==
  /\ \A k \in DOMAIN M.funcs :
       M.funcs[k].replicas # <<>> =>
         /\ \A e \in MetaEntries(k) : M.funcs[k].replicas = <<e[2], e[3], e[4]>>
         /\ MetaEntries(k) = {} => M.funcs[k].replicas = ext
  /\ OutsideOverride => LocalSize = ext

\* C5's case: the run is over, a kernel with metadata was replicated with a
\* size that is not the configured one, and a later kernel without metadata
\* was replicated with the configured one
C5_Witness ==
  /\ pc = "done"
  /\ \E x, y \in DOMAIN Registry :
       /\ x < y
       /\ MetaEntries(Registry[x]) # {}
       /\ MetaEntries(Registry[y]) = {}
       /\ M.funcs[Registry[x]].replicas \notin {<<>>, ext}
       /\ M.funcs[Registry[y]].replicas = ext

\* C6: the configured local size is the external default on every exit
\* path of the kernel's compilation, the failure of the Work-Item
\* Replication included.
C6_RestoredOnEveryExit ==
  pc \in {"done", "failed"} => LocalSize = ext

\* the stages of one kernel, in their order
KernelStages == <<"btr", "wr", "launcher", "workgroup">>

\* the stages run for kernel k, in the order they ran
StagesOf(k) == SelectSeq(trace, LAMBDA e : e[2] = k)

SourceNames == DOMAIN src.funcs

\* f is a workgroup function: defined, callable from outside the module,
\* void(i8*[], PoclContext*)
IsEntryFunction(f) ==
  /\ f \in DOMAIN M.funcs
  /\ ~M.funcs[f].decl
  /\ M.funcs[f].linkage = "External"
  /\ M.funcs[f].params = << PtrTy(PtrTy(IntTy(8))), PtrTy(PoclContextType) >>
  /\ M.funcs[f].ret = VoidTy

\* f's body ends in a call of g and a return
CallsLast(f, g) ==
  /\ Len(M.funcs[f].body) >= 2
  /\ M.funcs[f].body[Len(M.funcs[f].body) - 1].op = "call"
  /\ M.funcs[f].body[Len(M.funcs[f].body) - 1].callee = g

LauncherOf(k) ==
  IF ("_" \o k) \in SourceNames THEN "_" \o k \o "1" ELSE "_" \o k

DispatchedSig == M.funcs[dispatch.kernel].params

\* the values the host's argument array points to, each of its parameter's
\* type, and the context pointer
DirectArguments ==
  [n \in 1..(Len(DispatchedSig) + 1) |->
     IF n <= Len(DispatchedSig)
     THEN Val("data", 0, DispatchedSig[n], <<dispatch.vals[n]>>)
     ELSE CtxPtr]

\* the calls of the dispatched kernel's launcher
LauncherCalls ==
  SelectSeq(calls, LAMBDA c : c.callee = CalleeOf(dispatch.fn))

\* C4: a call of the workgroup function calls the launcher exactly once,
\* with the value behind args[i] as its i-th argument, of the i-th
\* parameter's type, and with ctx as its last argument.
C4_ForwardsToLauncher ==
  status \in {"returned", "trapped"} =>
    /\ Len(LauncherCalls) = 1
    /\ LauncherCalls[1].args = DirectArguments

\* C9: the workgroup function loads from the argument array at the indices
\* 0..N-1 only, N the number of the kernel's parameters.
C9_ReadsDeclaredOnly ==
  status # "idle" => reads \subseteq 0..(Len(DispatchedSig) - 1)

\* the functions the pass generated: launchers and workgroup functions
Generated == {f \in DOMAIN M.funcs : M.funcs[f].body # <<>>}

\* the type the last parameter of function f points to
ContextTypeOf(f) == M.funcs[f].params[Len(M.funcs[f].params)][2]

\* C10: the context type of every launcher and workgroup function is the
\* record of work_dim (one 32-bit integer), num_groups, group_id and
\* global_offset (three 32-bit integers each), fields 0 to 3 in this
\* order; the context work_dim=2, num_groups=(4,4,1), group_id=(1,2,0),
\* global_offset=(0,0,0) is the ten words 2,4,4,1,1,2,0,0,0,0, and every
\* kernel's generated code finds each field's words in them.
C10_ContextLayout ==
  /\ <<WORK_DIM, NUM_GROUPS, GROUP_ID, GLOBAL_OFFSET>> = <<0, 1, 2, 3>>
  /\ \A f \in Generated :
       /\ M.funcs[f].params[Len(M.funcs[f].params)][1] = "ptr"
       /\ ContextTypeOf(f) =
            <<"struct", << <<"int", 32>>,
                           <<"array", <<"int", 32>>, 3>>,
                           <<"array", <<"int", 32>>, 3>>,
                           <<"array", <<"int", 32>>, 3>> >> >>
  /\ (status # "idle" /\ dispatch.ctx = ExampleContext) =>
       /\ mem.ctx = <<2, 4, 4, 1, 1, 2, 0, 0, 0, 0>>
       /\ \A f \in Generated :
            /\ FieldWords(mem.ctx, ContextTypeOf(f), WORK_DIM) = <<2>>
            /\ FieldWords(mem.ctx, ContextTypeOf(f), NUM_GROUPS) = <<4, 4, 1>>
            /\ FieldWords(mem.ctx, ContextTypeOf(f), GROUP_ID) = <<1, 2, 0>>
            /\ FieldWords(mem.ctx, ContextTypeOf(f), GLOBAL_OFFSET) = <<0, 0, 0>>
  /\ status = "returned" =>
       /\ "_group_id" \in M.globals =>
            mem.globals["_group_id"] = dispatch.ctx.group_id
       /\ "_num_groups" \in M.globals =>
            mem.globals["_num_groups"] = dispatch.ctx.num_groups

\* C10's case: a kernel of two parameters was dispatched with the example
\* context, and its launcher copied group_id and num_groups out of it
C10_Witness ==
  /\ status = "returned"
  /\ dispatch.ctx = ExampleContext
  /\ Len(DispatchedSig) = 2
  /\ M.globals = {"_group_id", "_num_groups"}
  /\ mem.globals["_group_id"] = <<1, 2, 0>>
  /\ mem.globals["_num_groups"] = <<4, 4, 1>>

(***************************************************************************)
(* Properties of the Barrier Tail Replication.                             *)
(***************************************************************************)
\* the Barrier Tail Replication has run on kernel k
PastBTR(k) ==
  \E n \in DOMAIN Registry :
    /\ Registry[n] = k
    /\ ~Filtered(k)
    /\ \/ n <= i
       \/ n = i + 1 /\ pc \in {"size", "wr", "restore", "launcher", "workgroup"}

\* the blocks of the region that begins with block n: those reached from
\* n before a barrier is passed
RegionAt(cfg, n) == Grow(cfg, {n})

\* the blocks that begin a region: the entry and the successors of the
\* blocks that end in a barrier
RegionStarts(cfg) ==
  {1} \cup UNION {cfg[n].succ : n \in {m \in DOMAIN cfg : EndsInBarrier(cfg[m])}}

\* C3: after the Barrier Tail Replication has run on a kernel, every
\* barrier is the last instruction of its block, and no region has a
\* barrier before the end of one of its blocks.
C3_BarriersTerminal ==
  \A k \in DOMAIN M.funcs :
    PastBTR(k) =>
      LET cfg == M.funcs[k].cfg
      IN  /\ \A n \in DOMAIN cfg : \A j \in DOMAIN cfg[n].ins :
               cfg[n].ins[j].op = "barrier" => j = Len(cfg[n].ins)
          /\ \A s \in RegionStarts(cfg) \cap DOMAIN cfg :
               \A n \in RegionAt(cfg, s) : InteriorBarriers(cfg[n]) = {}

\* C3's case: the stage ran on a kernel that had a barrier in the middle
\* of a block and a block ending in a barrier with two predecessors, and
\* left more blocks than there were
C3_Witness ==
  LET before == src.funcs["a"].cfg
  IN  /\ PastBTR("a")
      /\ \E n \in DOMAIN before : InteriorBarriers(before[n]) # {}
      /\ \E n \in DOMAIN before :
           EndsInBarrier(before[n]) /\ Cardinality(Preds(before, n)) = 2
      /\ Len(M.funcs["a"].cfg) > Len(before)

(***************************************************************************)
(* Properties of the Work-Item Replication.                                *)
(***************************************************************************)
\* the kernel's body as the pass found it
SourceBody(k) == src.funcs[k].cfg[1].ins

\* the regions R0..Rk of a body: its instructions between the barriers
RECURSIVE Segments(_, _, _)
Segments(body, cur, acc) ==
  IF body = <<>> THEN Append(acc, cur)
  ELSE IF Head(body).op = "barrier"
       THEN Segments(Tail(body), <<>>, Append(acc, cur))
       ELSE Segments(Tail(body), Append(cur, Head(body)), acc)

\* the local size the kernel is replicated for
UsedSize(k) == SizeFor(src, k, ext)

\* the instructions the work-group has run
Executed(k) == SubSeq(M.funcs[k].wicode, 1, wg.ip - 1)

Finished(k) == pc = "done" /\ wg.ip = Len(M.funcs[k].wicode) + 1

\* the instructions of seq that belong to work-item w's replica of region r
ReplicaOf(seq, r, w) ==
  LET OfReplica(e) == e.region = r /\ e.wi = w
  IN  SelectSeq(seq, OfReplica)

\* replica is segment seg, instruction for instruction
ClonesOf(replica, seg) ==
  /\ Len(replica) = Len(seg)
  /\ \A j \in DOMAIN seg :
       replica[j].op = (IF seg[j].op = "lid" THEN "const" ELSE seg[j].op)

\* C1: the transformed function runs every replica of region Ri, one for
\* each work-item of the local size, before any instruction of region
\* Ri+1: whenever an instruction of a region has run, the replicas of all
\* earlier regions were complete before it, and at the end every region
\* has run once for every work-item.
C1_RegionsInOrder ==
  \A k \in Compiled :
    pc = "done" =>
      LET segs == Segments(SourceBody(k), <<>>, <<>>)
          items == WorkItems(UsedSize(k))
          done == Executed(k)
      IN  /\ \A j \in DOMAIN M.funcs[k].wicode :
               /\ M.funcs[k].wicode[j].region \in DOMAIN segs
               /\ M.funcs[k].wicode[j].wi \in items
          /\ \A j \in DOMAIN done :
               \A r \in 1..(done[j].region - 1) : \A w \in items :
                 ClonesOf(ReplicaOf(SubSeq(done, 1, j - 1), r, w), segs[r])
          /\ Finished(k) =>
               \A r \in DOMAIN segs : \A w \in items :
                 ClonesOf(ReplicaOf(done, r, w), segs[r])

\* C1's case: a kernel with one barrier and work on both sides of it, for
\* local size (2,1,1), has run to its end
C1_Witness ==
  /\ Finished("a")
  /\ ext = <<2, 1, 1>>
  /\ LET segs == Segments(SourceBody("a"), <<>>, <<>>)
     IN  Len(segs) = 2 /\ segs[1] # <<>> /\ segs[2] # <<>>

\* the original body run once by the work-item with local id lid
RECURSIVE RunBody(_, _, _, _)
RunBody(body, regs, buf, lid) ==
  IF body = <<>> THEN buf
  ELSE LET e == Effect(Head(body), regs, buf, lid)
       IN  RunBody(Tail(body), e.regs, e.buf, lid)

\* the original body run for the local ids w, w + 1, ..., n - 1 in turn
RECURSIVE RunItems(_, _, _, _)
RunItems(body, w, n, buf) ==
  IF w >= n THEN buf
  ELSE RunItems(body, w + 1, n, RunBody(body, <<>>, buf, <<w, 0, 0>>))

\* the private registers a clone names
Registers(ins) == {ins.dst, ins.x, ins.y} \ {<<>>}

\* C2: for a kernel without barriers and local size (n,1,1), the
\* transformed function run once leaves the shared buffer as n runs of
\* the original body with local id 0, 1, ..., n-1 leave it, whatever the
\* buffer held before; every replica works on its own private registers
\* only, and all replicas on the one shared buffer.
C2_SameBufferAsOriginal ==
  \A k \in Compiled :
    LET body == SourceBody(k)
        n == UsedSize(k)[1]
    IN  /\ pc = "done" =>
             /\ \A j \in DOMAIN M.funcs[k].wicode :
                  \A reg \in Registers(M.funcs[k].wicode[j]) :
                    reg[1] = M.funcs[k].wicode[j].wi
             /\ \A reg \in DOMAIN wg.priv :
                  \E j \in DOMAIN Executed(k) :
                    /\ Executed(k)[j].dst = reg
                    /\ Executed(k)[j].wi = reg[1]
        /\ ( /\ Finished(k)
             /\ UsedSize(k) = <<n, 1, 1>>
             /\ \A j \in DOMAIN body : body[j].op # "barrier" )
           => wg.buf = RunItems(body, 0, n, wg.buf0)

\* C2's case: a kernel without barriers that loads from and stores to the
\* shared buffer, for local size (3,1,1), has run to its end and changed
\* the buffer
C2_Witness ==
  /\ Finished("a")
  /\ ext = <<3, 1, 1>>
  /\ \A j \in DOMAIN SourceBody("a") : SourceBody("a")[j].op # "barrier"
  /\ \E j \in DOMAIN SourceBody("a") : SourceBody("a")[j].op = "store"
  /\ wg.buf # wg.buf0

(***************************************************************************)
(* Properties of the launcher.                                             *)
(***************************************************************************)
\* the calls of the dispatched kernel
KernelCalls ==
  SelectSeq(calls, LAMBDA c : c.callee = dispatch.kernel)

\* the positions in f's body of the stores to global g, and of the calls
StoresTo(f, g) ==
  {n \in DOMAIN M.funcs[f].body :
     M.funcs[f].body[n].op = "store" /\ M.funcs[f].body[n].callee = g}

CallsIn(f) == {n \in DOMAIN M.funcs[f].body : M.funcs[f].body[n].op = "call"}

\* the context field that belongs in global g
FieldFor(g, c) == IF g = "_group_id" THEN c.group_id ELSE c.num_groups

\* the launcher of the dispatched kernel has been called and has returned
LauncherReturned ==
  /\ status \in {"running", "returned"}
  /\ LauncherCalls # <<>>
  /\ Len(stack) <= 1

\* C11: the launcher stores the context's group_id to the group-id global
\* and its num_groups to the number-of-groups global when the module has
\* them, each before its call of the kernel; it emits no store for a global
\* the module does not have, and it calls the kernel exactly once, with its
\* own first N arguments in order.
C11_GlobalsBeforeKernel ==
  /\ \A f \in Generated \ EntryFunctions :
       /\ \A g \in DispatchGlobals :
            /\ Cardinality(StoresTo(f, g)) = (IF g \in M.globals THEN 1 ELSE 0)
            /\ \A n \in StoresTo(f, g) : \A c \in CallsIn(f) : n < c
       /\ Cardinality(CallsIn(f)) = 1
       /\ \A c \in CallsIn(f) :
            M.funcs[f].body[c].args =
              [n \in 1..(Len(M.funcs[f].params) - 1) |-> <<"arg", n - 1>>]
  /\ KernelCalls # <<>> =>
       \A g \in M.globals \cap DispatchGlobals :
         mem.globals[g] = FieldFor(g, dispatch.ctx)
  /\ Len(KernelCalls) <= 1
  /\ LauncherReturned =>
       /\ Len(KernelCalls) = 1
       /\ KernelCalls[1].args =
            SubSeq(LauncherCalls[1].args, 1, Len(DispatchedSig))
       /\ \A g \in DOMAIN mem.globals :
            g \in DispatchGlobals /\ mem.globals[g] = FieldFor(g, dispatch.ctx)

\* C11's case: in a module with the group-id global and without the
\* number-of-groups global, the launcher of a kernel of two parameters has
\* run and returned
C11_Witness ==
  /\ LauncherReturned
  /\ M.globals = {"_group_id"}
  /\ Len(DispatchedSig) = 2
  /\ mem.globals["_group_id"] = dispatch.ctx.group_id
  /\ dispatch.ctx.group_id # <<0, 0, 0>>

\* kernel k's launcher has been created
HasLauncher(k) == <<"launcher", k>> \in Range(trace)

\* C12: the launcher of every compiled kernel of N parameters has N+1
\* parameters, the kernel's parameter types in order and then a pointer to
\* the Dispatch Context Record; it returns nothing, is marked NoInline,
\* and each of its N+1 parameters (attribute indices 1 to N+1) is noalias.
C12_LauncherSignature ==
  \A k \in Compiled :
    HasLauncher(k) =>
      LET f == M.funcs[LauncherOf(k)]
          N == Len(src.funcs[k].params)
      IN  /\ Len(f.params) = N + 1
          /\ SubSeq(f.params, 1, N) = src.funcs[k].params
          /\ f.params[N + 1] = PtrTy(PoclContextType)
          /\ f.ret = VoidTy
          /\ "NoInline" \in f.attrs
          /\ f.noalias = 1..(N + 1)

\* C12's case: the launcher of a kernel of two parameters has been created
C12_Witness ==
  /\ "a" \in Compiled
  /\ HasLauncher("a")
  /\ Len(src.funcs["a"].params) = 2
  /\ M.funcs[LauncherOf("a")].noalias = {1, 2, 3}

(***************************************************************************)
(* Properties of a run in which a kernel fails.                            *)
(***************************************************************************)
\* kernel k went through all its stages
FullyCompiled(k) == Len(StagesOf(k)) = Len(KernelStages)

\* kernel k's body is as it was before the run
Untransformed(k) ==
  /\ M.funcs[k].cfg = src.funcs[k].cfg
  /\ M.funcs[k].wicode = src.funcs[k].wicode
  /\ ~M.funcs[k].barrierTail
  /\ M.funcs[k].replicas = <<>>

\* C13: when a stage fails for a kernel, the module holds the kernel's
\* body as it was before the run, and neither a launcher nor a workgroup
\* function for it, and every other kernel that is not filtered out went
\* through all its stages.
C13_AtomicFailure ==
  pc = "failed" =>
    /\ Untransformed(K)
    /\ LauncherOf(K) \notin DOMAIN M.funcs
    /\ LauncherOf(K) \o "_workgroup" \notin DOMAIN M.funcs
    /\ \A k \in Compiled \ {K} : FullyCompiled(k)

(***************************************************************************)
(* Properties of the kernel filter and of the header.                      *)
(***************************************************************************)
\* the registry kernels the configured filter selects: all of them when
\* the filter is empty
Selected == {k \in Range(Registry) : Kernel = "" \/ k = Kernel}

\* the kernels that stage st has run on, in the order of the runs
RunsOf(st) ==
  LET runs == SelectSeq(trace, LAMBDA e : e[1] = st)
  IN  [n \in DOMAIN runs |-> runs[n][2]]

\* the lines of the header that name kernel k
LinesOf(k) == SelectSeq(out, LAMBDA line : line \in Range(HeaderLines(k)))

SelectedInOrder == SelectSeq(Registry, LAMBDA k : k \in Selected)

\* the header's line of kernel k's count of private storage slots, and of
\* its default local size
SlotCountLine(k) == "#define _" \o k \o "_NUM_LOCALS 0"
LocalSizeLine(k) == "#define _" \o k \o "_LOCAL_SIZE {}"

\* C15: the header holds one pair of lines for each kernel whose
\* compilation has begun, the slot count's line and then the local size's
\* line, both keyed by the kernel's name; the pairs are in the order the
\* kernels are processed, no line names a skipped kernel, and at the end
\* of the run there is one pair for every compiled kernel.
C15_HeaderPairs ==
  /\ \E n \in 0..Len(SelectedInOrder) :
       /\ Len(out) = 2 * n
       /\ \A j \in 1..n :
            /\ out[2 * j - 1] = SlotCountLine(SelectedInOrder[j])
            /\ out[2 * j] = LocalSizeLine(SelectedInOrder[j])
       /\ n = Len(RunsOf("btr")) \/ (n = Len(RunsOf("btr")) + 1 /\ pc \in {"btr", "failed"})
  /\ pc = "done" => Len(out) = 2 * Len(SelectedInOrder)
  /\ \A k \in Range(Registry) \ Selected :
       \A j \in DOMAIN out : out[j] \notin {SlotCountLine(k), LocalSizeLine(k)}

\* C15's case: two kernels were compiled, the second of the registry last
C15_Witness ==
  /\ pc = "done"
  /\ Kernel = ""
  /\ Registry = <<"b", "a">>
  /\ out = << SlotCountLine("b"), LocalSizeLine("b"),
              SlotCountLine("a"), LocalSizeLine("a") >>

(***************************************************************************)
(* Properties of pocl_threads.h.                                           *)
(***************************************************************************)
\* the statuses wrapper w goes on with
Accepted(w) == IF w = "POCL_TIMEDWAIT_COND" THEN {0, ETIMEDOUT} ELSE {0}

\* C16: a wrapper ends the process when one of its primitives returned a
\* status other than 0 (for the timed wait: other than 0 and ETIMEDOUT),
\* goes on when none did, and has no value.
C16_AbortOnError ==
  th.last.statuses # <<>> =>
    /\ (th.proc = "aborted") <=>
         \E j \in DOMAIN th.last.statuses :
           th.last.statuses[j] \notin Accepted(th.last.w)
    /\ th.last.value = <<>>

\* C17: add, increment and decrement give the counter's value after the
\* operation; whichever threads ran them, k increments and m decrements
\* have changed the counter by k - m beside what add and compare-and-swap
\* changed; compare-and-swap stores the new value exactly when it found
\* the expected one, and gives the value it found.
C17_AtomicCounter ==
  th.proc # "none" =>
    /\ th.x - th.x0 - th.others = th.incs - th.decs
    /\ th.last.w = "POCL_ATOMIC_ADD" =>
         th.x = th.last.before + th.last.args[1] /\ th.last.value = <<th.x>>
    /\ th.last.w = "POCL_ATOMIC_INC" =>
         th.x = th.last.before + 1 /\ th.last.value = <<th.x>>
    /\ th.last.w = "POCL_ATOMIC_DEC" =>
         th.x = th.last.before - 1 /\ th.last.value = <<th.x>>
    /\ th.last.w = "POCL_ATOMIC_CAS" =>
         /\ th.last.value = <<th.last.before>>
         /\ th.x = IF th.last.before = th.last.args[1]
                   THEN th.last.args[2] ELSE th.last.before

\* C17's case: one thread incremented the counter and another decremented
\* it
C17_Witness ==
  /\ th.users = {1, 2}
  /\ th.incs = 1
  /\ th.decs = 1
  /\ th.x = th.x0
  /\ th.last.value = <<th.x>>

(***************************************************************************)
(* Properties of the benchmark.                                            *)
(***************************************************************************)
\* the run has come to the divisibility check and past it
PastDivisibilityCheck ==
  /\ bm.local_wg # 0
  /\ \/ bm.pc \in {"run", "crashed"}
     \/ bm.pc = "exited" /\ bm.exit = <<-1>>
                         /\ bm.printed[Len(bm.printed)] =
                              "matrix size must be divisible by local_wg"

\* C18: a run goes past the divisibility check exactly when the matrix
\* size is a multiple of the local size; when it is not, the run prints
\* "matrix size must be divisible by local_wg" and exits with -1.
C18_DivisibilityCheck ==
  /\ bm.pc = "run" => bm.matrix_size % bm.local_wg = 0
  /\ bm.pc # "crashed"
  /\ (PastDivisibilityCheck /\ bm.matrix_size % bm.local_wg # 0) =>
       bm.pc = "exited"

====
